---- MODULE Spec2Model ----
(***************************************************************************)
(* A model of mygit (src/unnamed/part_000, the latest revision of          *)
(* cmd/mygit/main.go): the object codec parseGitObject, the commands       *)
(* init, hash-object, cat-file -p and ls-tree, and the object store under  *)
(* .git/objects that they share.                                           *)
(*                                                                         *)
(* Go strings are byte strings: a string is modelled as a sequence of      *)
(* integers in 0..255.  File paths are sequences of path tokens (TLA+      *)
(* strings), "/" being a token of its own.                                 *)
(***************************************************************************)
EXTENDS Integers, Sequences, FiniteSets, TLC

VARIABLES
    dirs,       \* the directories that exist below the working directory
    files,      \* the regular files that exist: path -> bytes
    proc,       \* one record per running mygit process: position and locals
    nwrites,    \* the number of hash-object commands started so far
    arg,        \* codec specification: the argument given to parseGitObject
    ret         \* codec specification: what parseGitObject returned

storeVars == <<dirs, files, proc, nwrites>>
codecVars == <<arg, ret>>
vars == <<dirs, files, proc, nwrites, arg, ret>>

(***************************************************************************)
(* Bounds of the model.                                                    *)
(***************************************************************************)
MaxLen == 1        \* longest content of the hashed working-tree file
MaxWrites == 2     \* hash-object commands per behaviour
MaxRawLen == 5     \* longest raw string handed to parseGitObject
MaxPayloadLen == 2 \* longest payload of an encoding handed to parseGitObject

(***************************************************************************)
(* Bytes with a meaning in the code.                                       *)
(***************************************************************************)
NUL == 0
SP == 32
PLUS == 43
MINUS == 45
ZERO == 48
RuneSelf == 128

Str_blob == <<98, 108, 111, 98>>
Str_tree == <<116, 114, 101, 101>>

(***************************************************************************)
(* Helpers on byte strings.                                                *)
(***************************************************************************)
RECURSIVE IndexFrom(_, _, _)
IndexFrom(s, b, i) ==
    IF i > Len(s) THEN 0
    ELSE IF s[i] = b THEN i
    ELSE IndexFrom(s, b, i + 1)

\* strings.IndexByte, 1-based; 0 stands for Go's -1.
IndexByte(s, b) == IndexFrom(s, b, 1)

\* strings.SplitN(content, " ", 2)
SplitN2(content) ==
    LET i == IndexByte(content, SP)
    IN  IF i = 0 THEN <<content>>
        ELSE <<SubSeq(content, 1, i - 1), SubSeq(content, i + 1, Len(content))>>

RECURSIVE Digits(_, _)
Digits(s, n) ==
    IF s = <<>> THEN [ok |-> TRUE, val |-> n]
    ELSE IF Head(s) < ZERO \/ Head(s) > ZERO + 9 THEN [ok |-> FALSE, val |-> 0]
    ELSE Digits(Tail(s), n * 10 + (Head(s) - ZERO))

\* strconv.Atoi: an optional sign, then one or more decimal digits.
Atoi(s) ==
    IF s = <<>> THEN [ok |-> FALSE, val |-> 0]
    ELSE LET signed == Head(s) = MINUS \/ Head(s) = PLUS
             body == IF signed THEN Tail(s) ELSE s
             d == Digits(body, 0)
         IN  IF body = <<>> \/ ~d.ok THEN [ok |-> FALSE, val |-> 0]
             ELSE [ok |-> TRUE, val |-> IF Head(s) = MINUS THEN 0 - d.val ELSE d.val]

RECURSIVE Itoa(_)
\* fmt's %d of a non-negative integer.
Itoa(n) ==
    IF n < 10 THEN <<ZERO + n>>
    ELSE Append(Itoa(n \div 10), ZERO + (n % 10))

\* fmt.Sprintf("blob %d\x00%s", size, content), the type name made a parameter.
SprintfObject(typ, size, content) ==
    typ \o <<SP>> \o Itoa(size) \o <<NUL>> \o content

(***************************************************************************)
(* parseGitObject.  The result is [header, objectData, err]; a nil header  *)
(* is NilHeader and a nil error is "".                                     *)
(***************************************************************************)
RECURSIVE LastIndexFrom(_, _, _)
LastIndexFrom(s, b, i) ==
    IF i = 0 THEN 0 ELSE IF s[i] = b THEN i ELSE LastIndexFrom(s, b, i - 1)

\* Variant: the last NUL (strings.LastIndexByte) taken for the end of the header.
NullByteIndexOf_last(rest) == LastIndexFrom(rest, NUL, Len(rest))

\* strings.IndexByte(rest, 0): the first NUL of what follows the first space.
NullByteIndexOf(rest) == IndexByte(rest, NUL)

NilHeader == [isNil |-> TRUE, objectType |-> <<>>, size |-> 0]

ParseFailure(msg) == [header |-> NilHeader, objectData |-> <<>>, err |-> msg]

parseGitObject(content) ==
    LET parts == SplitN2(content)
    IN  IF Len(parts) < 2 THEN ParseFailure("invalid object header")
        ELSE LET objectType == parts[1]
                 rest == parts[2]
                 nullByteIndex == NullByteIndexOf(rest)
             IN  IF nullByteIndex = 0
                 THEN ParseFailure("invalid object format (missing null byte)")
                 ELSE LET sizeStr == SubSeq(rest, 1, nullByteIndex - 1)
                          size == Atoi(sizeStr)
                      IN  IF ~size.ok
                          THEN ParseFailure("invalid size in object header")
                          ELSE [header |-> [isNil |-> FALSE,
                                            objectType |-> objectType,
                                            size |-> size.val],
                                objectData |-> SubSeq(rest, nullByteIndex + 1, Len(rest)),
                                err |-> ""]

(***************************************************************************)
(* crypto/sha1, compress/zlib and unicode/utf8 as the commands use them.   *)
(* sha1.Sum is modelled by a 20-byte digest of a rolling polynomial hash   *)
(* of the whole input, zlib by the stored-block form of a zlib stream      *)
(* (2-byte header, one final stored block, Adler-32 trailer).              *)
(***************************************************************************)
sha1_Size == 20

RECURSIVE Mix(_, _)
Mix(data, s) ==
    IF data = <<>> THEN s
    ELSE Mix(Tail(data), (s * 253 + Head(data) + 1) % 8388593)

sha1_Sum(data) ==
    LET s == Mix(data, 1)
        b == <<s % 256, (s \div 256) % 256, s \div 65536>>
    IN  [k \in 1..sha1_Size |->
            (b[(k % 3) + 1] * (2 * (k \div 3) + 1) + k) % 256]

HexDigits == <<"0", "1", "2", "3", "4", "5", "6", "7",
               "8", "9", "a", "b", "c", "d", "e", "f">>

RECURSIVE Sprintf_x(_)
\* fmt.Sprintf("%x", sha): two lowercase hex digits per byte.
Sprintf_x(sha) ==
    IF sha = <<>> THEN <<>>
    ELSE <<HexDigits[(Head(sha) \div 16) + 1], HexDigits[(Head(sha) % 16) + 1]>>
         \o Sprintf_x(Tail(sha))

RECURSIVE AdlerA(_, _)
AdlerA(data, a) ==
    IF data = <<>> THEN a ELSE AdlerA(Tail(data), (a + Head(data)) % 65521)

RECURSIVE AdlerB(_, _, _)
AdlerB(data, a, b) ==
    IF data = <<>> THEN b
    ELSE AdlerB(Tail(data), (a + Head(data)) % 65521,
                (b + ((a + Head(data)) % 65521)) % 65521)

Adler32(data) ==
    LET a == AdlerA(data, 1)
        b == AdlerB(data, 1, 0)
    IN  <<b \div 256, b % 256, a \div 256, a % 256>>

\* zlib.NewWriter(&buffer); z.Write(data); z.Close(); buffer.Bytes()
zlibCompress(data) ==
    <<120, 156>>
    \o <<1, Len(data) % 256, Len(data) \div 256,
         255 - (Len(data) % 256), 255 - (Len(data) \div 256)>>
    \o data
    \o Adler32(data)

\* zlib.NewReader then io.ReadAll on the bytes of a file.  failed names the
\* call that returned the error: "" (none), "NewReader" or "ReadAll".
zlibDecompress(f) ==
    LET Fail(at) == [failed |-> at, data |-> <<>>]
    IN  IF Len(f) < 2 THEN Fail("NewReader")
        ELSE IF f[1] % 16 # 8 \/ (f[1] * 256 + f[2]) % 31 # 0 THEN Fail("NewReader")
        ELSE IF Len(f) < 7 THEN Fail("ReadAll")
        ELSE IF f[3] # 1 \/ f[6] # 255 - f[4] \/ f[7] # 255 - f[5] THEN Fail("ReadAll")
        ELSE LET n == f[4] + 256 * f[5]
             IN  IF Len(f) < 7 + n + 4 THEN Fail("ReadAll")
                 ELSE LET data == SubSeq(f, 8, 7 + n)
                      IN  IF SubSeq(f, 8 + n, 11 + n) # Adler32(data)
                          THEN Fail("ReadAll")
                          ELSE [failed |-> "", data |-> data]

IsCont(s, i) == i <= Len(s) /\ s[i] >= 128 /\ s[i] <= 191

\* The width of the rune that `for i := range s` decodes at byte i
\* (utf8.DecodeRuneInString): an invalid sequence is one byte wide.
RuneWidth(s, i) ==
    LET c == s[i]
        In(j, lo, hi) == j <= Len(s) /\ s[j] >= lo /\ s[j] <= hi
    IN  IF c < RuneSelf THEN 1
        ELSE IF c >= 194 /\ c <= 223 THEN (IF IsCont(s, i + 1) THEN 2 ELSE 1)
        ELSE IF c = 224
             THEN (IF In(i + 1, 160, 191) /\ IsCont(s, i + 2) THEN 3 ELSE 1)
        ELSE IF c = 237
             THEN (IF In(i + 1, 128, 159) /\ IsCont(s, i + 2) THEN 3 ELSE 1)
        ELSE IF c >= 225 /\ c <= 239
             THEN (IF IsCont(s, i + 1) /\ IsCont(s, i + 2) THEN 3 ELSE 1)
        ELSE IF c = 240
             THEN (IF In(i + 1, 144, 191) /\ IsCont(s, i + 2) /\ IsCont(s, i + 3)
                   THEN 4 ELSE 1)
        ELSE IF c >= 241 /\ c <= 243
             THEN (IF IsCont(s, i + 1) /\ IsCont(s, i + 2) /\ IsCont(s, i + 3)
                   THEN 4 ELSE 1)
        ELSE IF c = 244
             THEN (IF In(i + 1, 128, 143) /\ IsCont(s, i + 2) /\ IsCont(s, i + 3)
                   THEN 4 ELSE 1)
        ELSE 1

\* string(b) of a byte b: the UTF-8 encoding of the rune with that value.
StringOfByte(b) ==
    IF b < RuneSelf THEN <<b>> ELSE <<192 + (b \div 64), 128 + (b % 64)>>

RECURSIVE CatFileLoop(_, _, _, _)
\* cat-file's loop over readFileContent: content collects what follows the
\* first NUL, byte by byte, leaving out every byte that is 0.
CatFileLoop(readFileContent, i, flag, content) ==
    IF i > Len(readFileContent) THEN content
    ELSE LET c == readFileContent[i]
             flag2 == flag \/ c = NUL
         IN  CatFileLoop(readFileContent, i + RuneWidth(readFileContent, i), flag2,
                         IF flag2 /\ c # NUL THEN content \o StringOfByte(c)
                         ELSE content)

(***************************************************************************)
(* Paths.                                                                  *)
(***************************************************************************)
ObjectsDir == <<".git", "/", "objects", "/">>

RECURSIVE BlobPathLoop(_, _, _)
\* for i, v := range blobName { blobPath += string(v); if i == 1 { blobPath += "/" } }
BlobPathLoop(blobName, i, blobPath) ==
    IF i >= Len(blobName) THEN blobPath
    ELSE BlobPathLoop(blobName, i + 1,
                      IF i = 1 THEN blobPath \o <<blobName[i + 1], "/">>
                      ELSE Append(blobPath, blobName[i + 1]))

BlobPath(hash) == BlobPathLoop(hash, 0, ObjectsDir)

RECURSIVE LastSlash(_, _)
LastSlash(path, i) ==
    IF i = 0 THEN 0 ELSE IF path[i] = "/" THEN i ELSE LastSlash(path, i - 1)

\* filepath.Dir
Dir(path) == SubSeq(path, 1, LastSlash(path, Len(path)) - 1)

\* os.MkdirAll(path): path and every parent of it.
MkdirAll(path) ==
    {SubSeq(path, 1, i - 1) : i \in {j \in 1..Len(path) : path[j] = "/"}} \cup {path}

\* cat-file and ls-tree: os.Chdir(".git/objects/" + hash[:2]), then the file
\* hash[2:] opened relative to it.
ChdirTarget(hash) == ObjectsDir \o SubSeq(hash, 1, 2)

OpenTarget(hash) == ChdirTarget(hash) \o <<"/">> \o SubSeq(hash, 3, Len(hash))

(***************************************************************************)
(* The state of the store specification.                                   *)
(***************************************************************************)
Procs == {1, 2}

\* The bytes the working-tree file is made of: NUL, an ASCII letter, and a
\* byte above 0x7f.
FileBytes == {NUL, 97, 195}

SeqsUpTo(S, n) == UNION {[1..k -> S] : k \in 0..n}

Contents == SeqsUpTo(FileBytes, MaxLen)

Missing == [exists |-> FALSE, data |-> <<>>]

Present(c) == [exists |-> TRUE, data |-> c]

headFileContents ==
    <<114, 101, 102, 58, 32, 114, 101, 102, 115, 47, 104, 101, 97, 100, 115, 47,
      109, 97, 105, 110, 10>>

NilStats == -1

NilError == [isNil |-> TRUE, msg |-> ""]

\* errors.New("")
ErrorsNew == [isNil |-> FALSE, msg |-> ""]

NotParsed == [called |-> FALSE, header |-> NilHeader, objectData |-> <<>>, err |-> ""]

Parsed(r) ==
    [called |-> TRUE, header |-> r.header, objectData |-> r.objectData, err |-> r.err]

Idle ==
    [pc |-> "idle", cmd |-> "",
     file |-> <<>>, stats |-> NilStats, contentAndHeader |-> <<>>,
     hash |-> <<>>, readFileContent |-> <<>>, err |-> NilError,
     parsed |-> NotParsed, stdout |-> <<>>, out |-> <<>>, stderr |-> <<>>,
     status |-> ""]

\* A pre-existing object, stored the way any git writes it.
StoredObject(encoded) ==
    BlobPath(Sprintf_x(sha1_Sum(encoded))) :> zlibCompress(encoded)

\* The object stores a behaviour may start from: none, or the objects
\* directory holding one tree object written by another git client.
TreePayloads == {<<>>, <<97>>}

InitialStores ==
    {<<>>} \cup
    {StoredObject(SprintfObject(Str_tree, Len(t), t)) : t \in TreePayloads}

StoreInit ==
    /\ files \in InitialStores
    /\ dirs = UNION {MkdirAll(Dir(f)) : f \in DOMAIN files}
    /\ proc = [p \in Procs |-> Idle]
    /\ nwrites = 0

CodecIdle ==
    /\ arg = <<>>
    /\ ret = NotParsed

Init == StoreInit /\ CodecIdle

(***************************************************************************)
(* case "init"                                                             *)
(***************************************************************************)
InitCmd(p) ==
    /\ proc[p].pc = "idle"
    /\ dirs' = dirs \cup MkdirAll(<<".git">>) \cup MkdirAll(<<".git", "/", "objects">>)
                    \cup MkdirAll(<<".git", "/", "refs">>)
    /\ files' = (<<".git", "/", "HEAD">> :> headFileContents) @@ files
    /\ proc' = [proc EXCEPT ![p] =
                   [Idle EXCEPT !.pc = "exit", !.cmd = "init", !.status = "ok",
                                !.stdout = <<"Initialized git directory">>]]
    /\ UNCHANGED <<nwrites, arg, ret>>

(***************************************************************************)
(* case "hash-object"                                                      *)
(***************************************************************************)
\* What the file named by os.Args[3] can be when a system call looks at it:
\* missing, or present with some content.  Other programs write, create and
\* remove it at any time, so two calls need not see the same file.
Worktrees == {Missing} \cup {Present(c) : c \in Contents}

\* file, _ := os.ReadFile(os.Args[3]): nil, the empty string, when it fails.
HashObjectReadFile(p) ==
    /\ proc[p].pc = "idle"
    /\ nwrites < MaxWrites
    /\ nwrites' = nwrites + 1
    /\ \E worktree \in Worktrees :
          proc' = [proc EXCEPT ![p] =
                      [Idle EXCEPT !.pc = "ho_Stat", !.cmd = "hash-object",
                                   !.file = worktree.data]]
    /\ UNCHANGED <<dirs, files, arg, ret>>

\* The payload hash-object puts after the header.
HashedContent(file) == file

\* Variant: the digest taken of the payload alone, the header left out.
HashedBytes_payload(contentAndHeader) ==
    SubSeq(contentAndHeader, IndexByte(contentAndHeader, NUL) + 1, Len(contentAndHeader))

\* What sha1.Sum is applied to.
HashedBytes(contentAndHeader) == contentAndHeader

\* stats, _ := os.Stat(os.Args[3]); stats.Size() panics on the nil stats of
\* a missing file.  Otherwise the header, the digest and its hex form follow.
HashObjectStat(p) ==
    /\ proc[p].pc = "ho_Stat"
    /\ \E worktree \in Worktrees :
          IF ~worktree.exists
          THEN proc' = [proc EXCEPT ![p].pc = "exit", ![p].status = "panic"]
          ELSE LET size == Len(worktree.data)
                   content == HashedContent(proc[p].file)
                   contentAndHeader == SprintfObject(Str_blob, size, content)
                   sha == sha1_Sum(HashedBytes(contentAndHeader))
               IN  proc' = [proc EXCEPT ![p].pc = "ho_MkdirAll",
                                        ![p].stats = size,
                                        ![p].contentAndHeader = contentAndHeader,
                                        ![p].hash = Sprintf_x(sha)]
    /\ UNCHANGED <<dirs, files, nwrites, arg, ret>>

\* os.MkdirAll(filepath.Dir(blobPath), os.ModePerm)
HashObjectMkdirAll(p) ==
    /\ proc[p].pc = "ho_MkdirAll"
    /\ dirs' = dirs \cup MkdirAll(Dir(BlobPath(proc[p].hash)))
    /\ proc' = [proc EXCEPT ![p].pc = "ho_Create"]
    /\ UNCHANGED <<files, nwrites, arg, ret>>

\* f, _ := os.Create(blobPath): the file is created, or truncated to nothing.
HashObjectCreate(p) ==
    /\ proc[p].pc = "ho_Create"
    /\ files' = (BlobPath(proc[p].hash) :> <<>>) @@ files
    /\ proc' = [proc EXCEPT ![p].pc = "ho_Write"]
    /\ UNCHANGED <<dirs, nwrites, arg, ret>>

\* Variant: the file opened for appending, the write landing at its end.
WriteAt0_append(old, buffer) == old \o buffer

\* The bytes of a file after a write of buffer at offset 0.
WriteAt0(old, buffer) == buffer \o SubSeq(old, Len(buffer) + 1, Len(old))

\* f.Write(buffer.Bytes()); fmt.Print(hash)
HashObjectWrite(p) ==
    /\ proc[p].pc = "ho_Write"
    /\ LET blobPath == BlobPath(proc[p].hash)
       IN  files' = [files EXCEPT ![blobPath] =
                        WriteAt0(@, zlibCompress(proc[p].contentAndHeader))]
    /\ proc' = [proc EXCEPT ![p].pc = "exit", ![p].status = "ok",
                            ![p].stdout = proc[p].hash]
    /\ UNCHANGED <<dirs, nwrites, arg, ret>>

(***************************************************************************)
(* DecompressAndRead: the string and the error it returns, and the line    *)
(* it prints on standard output when it fails.                             *)
(***************************************************************************)
DecompressAndRead(fileName) ==
    IF fileName \notin DOMAIN files
    THEN [data |-> <<>>, err |-> ErrorsNew, printed |-> <<"Error opening file:">>]
    ELSE LET z == zlibDecompress(files[fileName])
         IN  IF z.failed = "NewReader"
             THEN [data |-> <<>>, err |-> ErrorsNew,
                   printed |-> <<"Error creating zlib reader:">>]
             ELSE IF z.failed = "ReadAll"
             THEN [data |-> <<>>, err |-> ErrorsNew,
                   printed |-> <<"Error reading decompressed data:">>]
             ELSE [data |-> z.data, err |-> NilError, printed |-> <<>>]

\* The 40 hex digits a path below .git/objects stands for.
PathDigest(path) == SubSeq(path, 5, 6) \o SubSeq(path, 8, Len(path))

ObjectPaths == {f \in DOMAIN files : Len(f) > 4 /\ SubSeq(f, 1, 4) = ObjectsDir}

UnknownDigest == Sprintf_x(sha1_Sum(<<>>))

\* The digests a user passes to cat-file -p and ls-tree: one of an object
\* of the store, one a hash-object run is working on, or one of no object.
DigestArgs ==
    {PathDigest(f) : f \in ObjectPaths}
        \cup {proc[q].hash : q \in {r \in Procs : proc[r].hash # <<>>}}
        \cup {UnknownDigest}

(***************************************************************************)
(* case "cat-file" (with -p)                                               *)
(***************************************************************************)
CatFileChdir(p) ==
    /\ proc[p].pc = "idle"
    /\ \E hash \in DigestArgs :
          IF ChdirTarget(hash) \notin dirs
          THEN proc' = [proc EXCEPT ![p] =
                           [Idle EXCEPT !.pc = "exit", !.cmd = "cat-file",
                                        !.hash = hash, !.status = "ok",
                                        !.stderr = <<"specified hash does not exist">>]]
          ELSE proc' = [proc EXCEPT ![p] =
                           [Idle EXCEPT !.pc = "cf_Read", !.cmd = "cat-file",
                                        !.hash = hash]]
    /\ UNCHANGED <<dirs, files, nwrites, arg, ret>>

CatFileRead(p) ==
    /\ proc[p].pc = "cf_Read"
    /\ LET r == DecompressAndRead(OpenTarget(proc[p].hash))
       IN  IF ~r.err.isNil
           THEN proc' = [proc EXCEPT ![p].pc = "exit", ![p].status = "ok",
                                     ![p].err = r.err,
                                     ![p].stdout = r.printed,
                                     ![p].stderr = <<r.err.msg>>]
           ELSE proc' = [proc EXCEPT ![p].pc = "exit", ![p].status = "ok",
                                     ![p].readFileContent = r.data,
                                     ![p].out = CatFileLoop(r.data, 1, FALSE, <<>>)]
    /\ UNCHANGED <<dirs, files, nwrites, arg, ret>>

(***************************************************************************)
(* case "ls-tree".  Line 178 passes `content`, a name this case does not   *)
(* declare; the string in scope is readFileContent, and the model passes   *)
(* that.  The error of DecompressAndRead is assigned to _.                 *)
(***************************************************************************)
LsTreeChdir(p) ==
    /\ proc[p].pc = "idle"
    /\ \E hash \in DigestArgs :
          IF ChdirTarget(hash) \notin dirs
          THEN proc' = [proc EXCEPT ![p] =
                           [Idle EXCEPT !.pc = "exit", !.cmd = "ls-tree",
                                        !.hash = hash, !.status = "ok",
                                        !.stderr = <<"specified hash does not exist">>]]
          ELSE proc' = [proc EXCEPT ![p] =
                           [Idle EXCEPT !.pc = "ls_Read", !.cmd = "ls-tree",
                                        !.hash = hash]]
    /\ UNCHANGED <<dirs, files, nwrites, arg, ret>>

LsTreeRead(p) ==
    /\ proc[p].pc = "ls_Read"
    /\ LET r == DecompressAndRead(OpenTarget(proc[p].hash))
           readFileContent == r.data
           g == parseGitObject(readFileContent)
       IN  IF g.err # ""
           THEN proc' = [proc EXCEPT ![p].pc = "exit", ![p].status = "ok",
                                     ![p].readFileContent = readFileContent,
                                     ![p].parsed = Parsed(g),
                                     ![p].stdout = r.printed,
                                     ![p].stderr = <<"error parsing git object:", g.err>>]
           ELSE proc' = [proc EXCEPT ![p].pc = "exit", ![p].status = "ok",
                                     ![p].readFileContent = readFileContent,
                                     ![p].parsed = Parsed(g),
                                     ![p].stdout =
                                         r.printed \o
                                         (IF g.header.objectType = Str_tree
                                          THEN <<"This is a tree object">>
                                          ELSE IF g.header.objectType = Str_blob
                                          THEN <<"This is a blob object">>
                                          ELSE <<"Unsupported object type">>),
                                     ![p].out =
                                         IF g.header.objectType \in {Str_tree, Str_blob}
                                         THEN g.objectData ELSE <<>>]
    /\ UNCHANGED <<dirs, files, nwrites, arg, ret>>

\* The process ends; the next command starts from fresh locals.
Exit(p) ==
    /\ proc[p].pc = "exit"
    /\ proc' = [proc EXCEPT ![p] = Idle]
    /\ UNCHANGED <<dirs, files, nwrites, arg, ret>>

Next ==
    \/ \E p \in Procs : InitCmd(p)
    \/ \E p \in Procs : HashObjectReadFile(p)
    \/ \E p \in Procs : HashObjectStat(p)
    \/ \E p \in Procs : HashObjectMkdirAll(p)
    \/ \E p \in Procs : HashObjectCreate(p)
    \/ \E p \in Procs : HashObjectWrite(p)
    \/ \E p \in Procs : CatFileChdir(p)
    \/ \E p \in Procs : CatFileRead(p)
    \/ \E p \in Procs : LsTreeChdir(p)
    \/ \E p \in Procs : LsTreeRead(p)
    \/ \E p \in Procs : Exit(p)

Spec == Init /\ [][Next]_vars

(***************************************************************************)
(* The store under init and hash-object alone: the commands that change    *)
(* it.  Each process runs one command.                                     *)
(***************************************************************************)
NextWrite ==
    \/ \E p \in Procs : InitCmd(p)
    \/ \E p \in Procs : HashObjectReadFile(p)
    \/ \E p \in Procs : HashObjectStat(p)
    \/ \E p \in Procs : HashObjectMkdirAll(p)
    \/ \E p \in Procs : HashObjectCreate(p)
    \/ \E p \in Procs : HashObjectWrite(p)

SpecWrite == Init /\ [][NextWrite]_vars

(***************************************************************************)
(* The codec specification: parseGitObject applied to one string, either   *)
(* any short string over the bytes the header grammar tells apart, or an   *)
(* object encoding of a payload over those bytes.                          *)
(***************************************************************************)
CodecBytes == {NUL, SP, PLUS, MINUS, 53, 98}

ObjectTypes == {Str_blob, Str_tree}

Payloads == SeqsUpTo(CodecBytes, MaxPayloadLen)

Encodings == {SprintfObject(t, Len(c), c) : t \in ObjectTypes, c \in Payloads}

CodecInit ==
    /\ arg \in SeqsUpTo(CodecBytes, MaxRawLen) \cup Encodings
    /\ ret = NotParsed
    /\ files = <<>>
    /\ dirs = {}
    /\ proc = [p \in Procs |-> Idle]
    /\ nwrites = 0

CallParseGitObject ==
    /\ ~ret.called
    /\ ret' = Parsed(parseGitObject(arg))
    /\ UNCHANGED <<dirs, files, proc, nwrites, arg>>

CodecNext == CallParseGitObject

SpecCodec == CodecInit /\ [][CodecNext]_vars

(***************************************************************************)
(* Notions the properties share.                                           *)
(***************************************************************************)
Finished(p, cmd) == proc[p].pc = "exit" /\ proc[p].cmd = cmd

\* Some hash-object run has created or truncated f and not yet written it.
Writing(f) ==
    \E p \in Procs : proc[p].pc = "ho_Write" /\ BlobPath(proc[p].hash) = f

HexDigitSet == {HexDigits[i] : i \in 1..16}

\* f is objects/<2 hex digits>/<38 hex digits>.
WellPlaced(f) ==
    /\ Len(f) = 4 + 2 * sha1_Size + 1
    /\ SubSeq(f, 1, 4) = ObjectsDir
    /\ f[7] = "/"
    /\ \A i \in (5..Len(f)) \ {7} : f[i] \in HexDigitSet

ReadFailures ==
    {"Error opening file:", "Error creating zlib reader:",
     "Error reading decompressed data:"}

CorruptFailures ==
    {"Error creating zlib reader:", "Error reading decompressed data:"}

Printed(p) == {proc[p].stdout[i] : i \in 1..Len(proc[p].stdout)}

(***************************************************************************)
(* C1.  Read-after-write: once hash-object has stored the blob of a        *)
(* payload c, cat-file -p of the digest it printed prints exactly c.       *)
(* Stated of every cat-file run that read the complete object of c.        *)
(***************************************************************************)
C1_ReadAfterWrite ==
    \A p \in Procs : \A c \in Contents :
        (/\ Finished(p, "cat-file")
         /\ proc[p].err.isNil
         /\ proc[p].stderr = <<>>
         /\ proc[p].hash = Sprintf_x(sha1_Sum(SprintfObject(Str_blob, Len(c), c)))
         /\ proc[p].readFileContent = SprintfObject(Str_blob, Len(c), c))
        => proc[p].out = c

(***************************************************************************)
(* C2.  Content addressing: two hash-object runs of the same (type,        *)
(* payload) print the same digest, and the store then holds one object     *)
(* file for them.                                                          *)
(***************************************************************************)
C2_ContentAddressing ==
    \A p, q \in Procs :
        (/\ Finished(p, "hash-object") /\ proc[p].status = "ok"
         /\ Finished(q, "hash-object") /\ proc[q].status = "ok"
         /\ proc[p].file = proc[q].file)
        => /\ proc[p].stdout = proc[q].stdout
           /\ Cardinality({f \in ObjectPaths :
                             PathDigest(f) \in {proc[p].stdout, proc[q].stdout}}) = 1

(***************************************************************************)
(* C3.  Codec round trip: parseGitObject of "<t> <len(c)>\0<c>" returns    *)
(* (t, len(c), c) and no error, for t blob or tree and every payload c.    *)
(***************************************************************************)
C3_RoundTrip ==
    \A t \in ObjectTypes : \A c \in Payloads :
        (ret.called /\ arg = SprintfObject(t, Len(c), c))
        => /\ ret.err = ""
           /\ ~ret.header.isNil
           /\ ret.header.objectType = t
           /\ ret.header.size = Len(c)
           /\ ret.objectData = c

\* A tree encoding whose payload holds a NUL and a space has been decoded.
C3_Witness ==
    /\ ret.called
    /\ arg = SprintfObject(Str_tree, 2, <<NUL, SP>>)
    /\ ret.objectData = <<NUL, SP>>

(***************************************************************************)
(* C4.  Tree parse exactness: ls-tree of a tree object yields the entries  *)
(* of its payload, and rejects a payload that is not a sequence of         *)
(* entries "<mode> <name>\0<20-byte digest>".                              *)
(***************************************************************************)
RECURSIVE IsTreePayload(_)
IsTreePayload(s) ==
    IF s = <<>> THEN TRUE
    ELSE LET i == IndexByte(s, SP)
             j == IndexFrom(s, NUL, i + 1)
         IN  /\ i > 1
             /\ j > i + 1
             /\ Len(s) >= j + sha1_Size
             /\ IsTreePayload(SubSeq(s, j + sha1_Size + 1, Len(s)))

C4_TreeParseExact ==
    \A p \in Procs :
        (/\ Finished(p, "ls-tree")
         /\ proc[p].parsed.called
         /\ proc[p].parsed.err = ""
         /\ proc[p].parsed.header.objectType = Str_tree
         /\ ~IsTreePayload(proc[p].parsed.objectData))
        => /\ proc[p].stderr # <<>>
           /\ proc[p].out = <<>>

(***************************************************************************)
(* C5.  parseGitObject fails, returning no header and no payload, exactly  *)
(* when its input has no space, or no NUL after the first space, or a size *)
(* token that is not a non-empty run of decimal digits.                    *)
(***************************************************************************)
IsDecimal(s) == s # <<>> /\ \A i \in 1..Len(s) : s[i] >= ZERO /\ s[i] <= ZERO + 9

MalformedHeader(s) ==
    LET i == IndexByte(s, SP)
        j == IndexFrom(s, NUL, i + 1)
    IN  \/ i = 0
        \/ j = 0
        \/ ~IsDecimal(SubSeq(s, i + 1, j - 1))

C5_MalformedHeader ==
    ret.called =>
        /\ MalformedHeader(arg) <=> ret.err # ""
        /\ ret.err # "" => ret.header.isNil /\ ret.objectData = <<>>

(***************************************************************************)
(* C6.  A read of a digest with no object file fails with an error that    *)
(* differs from the error of a file that cannot be decompressed, and no    *)
(* command goes on to process the empty string of a failed read.           *)
(***************************************************************************)
C6_DistinctErrors ==
    /\ \A p \in Procs :
          (Finished(p, "ls-tree") /\ Printed(p) \cap ReadFailures # {})
          => ~proc[p].parsed.called
    /\ \A p, q \in Procs :
          (/\ Finished(p, "cat-file") /\ "Error opening file:" \in Printed(p)
           /\ Finished(q, "cat-file") /\ Printed(q) \cap CorruptFailures # {})
          => proc[p].err # proc[q].err

(***************************************************************************)
(* C7.  Digest-content binding: every object file that no hash-object run  *)
(* is in the middle of writing lies at objects/<2 hex>/<38 hex>, and the   *)
(* 40 hex digits are the digest of the file's decompressed bytes, header   *)
(* included.                                                               *)
(***************************************************************************)
C7_DigestBinding ==
    \A f \in DOMAIN files :
        \/ f = <<".git", "/", "HEAD">>
        \/ Writing(f)
        \/ LET z == zlibDecompress(files[f])
           IN  /\ WellPlaced(f)
               /\ z.failed = ""
               /\ PathDigest(f) = Sprintf_x(sha1_Sum(z.data))

\* A hash-object run has finished and its object is in the store, complete.
C7_Witness ==
    \E p \in Procs :
        /\ Finished(p, "hash-object") /\ proc[p].status = "ok"
        /\ proc[p].file # <<>>
        /\ BlobPath(proc[p].stdout) \in DOMAIN files
        /\ ~Writing(BlobPath(proc[p].stdout))
        /\ zlibDecompress(files[BlobPath(proc[p].stdout)]).data
               = proc[p].contentAndHeader

(***************************************************************************)
(* C8.  Size consistency: the header of every object hash-object stores    *)
(* gives the byte length of the payload stored after its NUL.              *)
(***************************************************************************)
C8_SizeConsistent ==
    \A f \in ObjectPaths :
        (~Writing(f) /\ zlibDecompress(files[f]).failed = "")
        => LET g == parseGitObject(zlibDecompress(files[f]).data)
           IN  g.err = "" /\ g.header.size = Len(g.objectData)

(***************************************************************************)
(* C9.  No partial writes are visible: a cat-file run that opens an object *)
(* file finds the complete compressed object in it.                        *)
(***************************************************************************)
C9_NoPartialRead ==
    \A p \in Procs :
        Finished(p, "cat-file") => Printed(p) \cap CorruptFailures = {}

(***************************************************************************)
(* C10.  Concurrent writers are benign: once two hash-object runs have     *)
(* both finished, the object file of each holds exactly the compressed     *)
(* encoding that run computed, however their create and write steps        *)
(* interleaved.                                                            *)
(***************************************************************************)
C10_WritersBenign ==
    (\A p \in Procs : Finished(p, "hash-object") /\ proc[p].status = "ok")
    => \A p \in Procs :
          /\ BlobPath(proc[p].stdout) \in DOMAIN files
          /\ files[BlobPath(proc[p].stdout)] = zlibCompress(proc[p].contentAndHeader)

\* Both runs have finished, and they wrote the same object.
C10_Witness ==
    /\ \A p \in Procs : Finished(p, "hash-object") /\ proc[p].status = "ok"
    /\ proc[1].stdout = proc[2].stdout
    /\ files[BlobPath(proc[1].stdout)] = zlibCompress(proc[1].contentAndHeader)

====
